---- MODULE Spec2Model ----
(***************************************************************************)
(* Model of get_first_level_clusters (Fig. 6 d notebook), the adaptive     *)
(* complex-threshold clustering assigner, together with the scipy          *)
(* routines it calls (maxdists, fcluster with criterion="distance") and    *)
(* the numpy set helpers (intersect1d, union1d, unique, argwhere).         *)
(*                                                                         *)
(* Numbers.  The merge distance of row r of the linkage is the rational    *)
(* link[r].d / unit, with link[r].d an integer.  The generated linkages    *)
(* use unit = 8 (distances 0.125, 0.25, ...), for which the floating-point *)
(* thresholds of the code compare with the distances exactly as the        *)
(* rationals of the model do; the 5-item scenario uses unit = 10           *)
(* (distances 0.1, 0.2, 0.5, 0.9).  np.linspace(0, max_thresh, num) yields *)
(* the thresholds k * max_thresh / (num - 1), k = 0 .. num-1; a threshold  *)
(* is kept as the integer k * max_thresh, i.e. in units of                 *)
(* 1 / (unit * (num - 1)), so that every comparison of the code is an      *)
(* exact integer comparison.  A Jaccard score numer / denom is kept as the *)
(* pair <<numer, denom>> and compared by cross multiplication.             *)
(*                                                                         *)
(* Indices are 0-based as in the code: items 0 .. n-1, cluster ids of the  *)
(* linkage 0 .. 2n-2 (row r of the linkage creates cluster n + r).         *)
(***************************************************************************)
EXTENDS Integers, Sequences, FiniteSets, TLC

\* ---------------------------------------------------------------- bounds
\* largest number of items (genes of common_genes) of a generated linkage;
\* the specifications of particular families of inputs go 1 or 2 beyond
MaxItems == 3
\* largest merge distance of a generated linkage, in units of 1 / 8
MaxDist == 2
\* largest number of pairs of items of a linkage that merges pairs first
MaxPairs == 3
\* largest number of complexes of a generated mapping
MaxComplexes == 2
\* number of genes that occur in complexes but not in common_genes
NumAbsent == 1
\* largest number of items of a list of levels given to create_data_structure
MaxTreeItems == 3
\* largest number of levels of that list
MaxLevels == 3
\* largest number of genes of the supervised standard
MaxGenes == 5
\* largest number of absent genes of a complex with most genes absent
MaxAbsent == 3

\* ------------------------------------------------------ program constants
\* np.linspace(0, max_thresh, num=1000)
NumThresholds == 1000
\* highest_thresh + 0.1: the offset is 1 / OffsetDen
OffsetDen == 10

VARIABLES
    n,                \* len(common_genes)
    link,             \* the linkage: sequence of n-1 rows [a, b, d]
    unit,             \* the merge distance of row r is link[r].d / unit
    complexes,        \* the mapping, in iteration order: sequence of gene sets
    num,              \* number of scanned thresholds
    pc,               \* position in get_first_level_clusters
    ci,               \* index (1-based) of the complex being processed
    ti,               \* index k of the current threshold of the scan
    clusters,         \* fcluster(link, thresh): item -> cluster id
    labels,           \* cluster ids of np.unique(clusters) still to visit
    best_jaccard,     \* <<numer, denom>> of the best score of the complex
    highest_thresh,   \* scaled: k * max_thresh
    assignments,      \* sequence of [complex, cluster] in insertion order
    found_at,         \* history: complex -> scaled threshold of its last record
    ai,               \* number of entries of assignments already written
    gene_assignments, \* item -> captured label, 0 when none
    final_clusters,   \* the returned array (item -> label), <<>> before
    run,              \* 1 in the first call of the function, 2 in a second
    first,            \* history: what the first call returned, <<>> before
    tree,             \* create_data_structure: [clusters, data], <<>> unused
    split             \* the train/test splitting loop (Fig. 4), <<>> unused

vars == <<n, link, unit, complexes, num, pc, ci, ti, clusters, labels, best_jaccard,
          highest_thresh, assignments, found_at, ai, gene_assignments,
          final_clusters, run, first, tree, split>>

\* what get_first_level_clusters only reads, the history of the calls, and
\* the state of the other routines
inputs == <<n, link, unit, complexes, num, run, first, tree, split>>

\* n_trials = 10
n_trials == 10
\* test_size = 0.2, as the fraction 2 / 10
test_size == <<2, 10>>

\* ------------------------------------------------------------- helpers
Max(S) == CHOOSE x \in S : \A y \in S : y <= x
Min(S) == CHOOSE x \in S : \A y \in S : x <= y

Items(nn) == 0 .. (nn - 1)

\* common_genes[i]: the gene identifier of item i (identifiers 10, 11, ...)
common_genes(i) == 10 + i
CommonGenes(nn) == {common_genes(i) : i \in Items(nn)}
\* the genes of complexes that are not in common_genes (identifiers 1, 2, ...)
AbsentGenes == 1 .. NumAbsent

\* ------------------------------------------------------ scipy: maxdists
\* row r (0-based) of the linkage Z
Row(Z, r) == Z[r + 1]

\* maxdists(Z)[r]: the largest merge distance in the subtree of cluster n + r
RECURSIVE maxdists(_, _, _)
maxdists(Z, nn, r) ==
    LET a == Row(Z, r).a
        b == Row(Z, r).b
        ma == IF a >= nn THEN maxdists(Z, nn, a - nn) ELSE 0
        mb == IF b >= nn THEN maxdists(Z, nn, b - nn) ELSE 0
    IN  Max({Row(Z, r).d, ma, mb})

\* np.max(maxdists(link)), times unit
max_thresh_of(Z, nn) == Max({maxdists(Z, nn, r) : r \in 0 .. (nn - 2)})

\* ------------------------------------------------------ scipy: fcluster
\* cluster_monocrit: depth-first walk from the root; a node whose maxdists
\* value is <= cutoff and that lies in no cluster yet leads a new cluster;
\* the non-leaf children are walked first (left, then right), then the leaf
\* children get the current cluster number, or a fresh one when they lie in
\* no cluster.  st = [T |-> item -> number, nc |-> n_cluster].
\* The cutoff is the rational cutNum / cutDen, in the unit of the distances.
monocrit_leaf(i, inside, st) ==
    LET nc == IF inside THEN st.nc ELSE st.nc + 1
    IN  [T |-> [st.T EXCEPT ![i] = nc], nc |-> nc]

RECURSIVE cluster_monocrit(_, _, _, _, _, _, _)
cluster_monocrit(Z, nn, cutNum, cutDen, root, inside, st) ==
    LET r == root - nn
        i_lc == Row(Z, r).a
        i_rc == Row(Z, r).b
        leads == (~inside) /\ (maxdists(Z, nn, r) * cutDen <= cutNum)
        in == inside \/ leads
        st1 == IF leads THEN [st EXCEPT !.nc = @ + 1] ELSE st
        st2 == IF i_lc >= nn
                 THEN cluster_monocrit(Z, nn, cutNum, cutDen, i_lc, in, st1) ELSE st1
        st3 == IF i_rc >= nn
                 THEN cluster_monocrit(Z, nn, cutNum, cutDen, i_rc, in, st2) ELSE st2
        st4 == IF i_lc < nn THEN monocrit_leaf(i_lc, in, st3) ELSE st3
        st5 == IF i_rc < nn THEN monocrit_leaf(i_rc, in, st4) ELSE st4
    IN  st5

\* fcluster(Z, cutNum / cutDen, criterion="distance"): item -> cluster id
\* (1, 2, ...)
fcluster(Z, nn, cutNum, cutDen) ==
    cluster_monocrit(Z, nn, cutNum, cutDen, 2 * nn - 2, FALSE,
                     [T |-> [i \in Items(nn) |-> 0], nc |-> 0]).T

\* ------------------------------------------------------------ numpy
\* np.unique(clusters): the distinct cluster ids, visited in ascending order
unique(T) == {T[i] : i \in DOMAIN T}

\* np.argwhere(clusters == label).flatten(): the item indices of a cluster
argwhere(T, label) == {i \in DOMAIN T : T[i] = label}

\* common_genes[cluster]
cluster_genes_of(cluster) == {common_genes(i) : i \in cluster}

\* len(np.intersect1d(comp_genes, common_genes))
num_present(comp_genes, nn) == Cardinality(comp_genes \cap CommonGenes(nn))

\* the Jaccard score of a cluster and a complex as <<numer, denom>> (0 is <<0, 1>>)
\* mutant: the score against the genes of the complex that are in
\* common_genes only
jaccard_of_present(cluster, comp_genes) ==
    LET present == comp_genes \cap CommonGenes(n)
        numer == Cardinality(cluster_genes_of(cluster) \cap present)
        denom == Cardinality(cluster_genes_of(cluster) \cup present)
    IN  IF denom = 0 THEN <<0, 1>> ELSE <<numer, denom>>

jaccard_of(cluster, comp_genes) ==
    LET numer == Cardinality(cluster_genes_of(cluster) \cap comp_genes)
        denom == Cardinality(cluster_genes_of(cluster) \cup comp_genes)
    IN  IF denom = 0 THEN <<0, 1>> ELSE <<numer, denom>>

\* mutant: the gate is passed only above 0.5
is_capture_strict_gate(j, best) ==
    (j[1] * best[2] > best[1] * j[2]) /\ (2 * j[1] > j[2])

\* mutant: no gate, any strict improvement is recorded
is_capture_no_gate(j, best) == j[1] * best[2] > best[1] * j[2]

\* mutant: an equal score replaces the recorded cluster
is_capture_ties(j, best) ==
    (j[1] * best[2] >= best[1] * j[2]) /\ (2 * j[1] >= j[2])

\* jaccard > best_jaccard and jaccard >= 0.5
is_capture(j, best) == (j[1] * best[2] > best[1] * j[2]) /\ (2 * j[1] >= j[2])

\* the k-th threshold of np.linspace(0, max_thresh, num), times
\* unit * (num - 1)
thresh_of(k, Z, nn) == k * max_thresh_of(Z, nn)

\* ---------------------------------------------------------------- inputs
\* All linkages over nn items: every row merges two clusters that exist and
\* are not merged yet, the smaller id first, with non-decreasing distances
\* (average linkage has no inversions) in 1 .. MaxDist.
RECURSIVE Shapes(_, _, _)
Shapes(nn, sh, active) ==
    IF Len(sh) = nn - 1 THEN {sh}
    ELSE UNION { Shapes(nn, Append(sh, x),
                        (active \ {x[1], x[2]}) \cup {nn + Len(sh)}) :
                 x \in {y \in active \X active : y[1] < y[2]} }

DistSeqs(m) ==
    {ds \in [1 .. m -> 1 .. MaxDist] :
        \A i \in 1 .. (m - 1) : ds[i] <= ds[i + 1]}

\* the linkage of a shape (the merged pairs) and its merge distances
MakeLinkage(sh, ds) ==
    [r \in DOMAIN sh |-> [a |-> sh[r][1], b |-> sh[r][2], d |-> ds[r]]]

Linkages(nn) ==
    {MakeLinkage(sh, ds) :
        sh \in Shapes(nn, <<>>, Items(nn)), ds \in DistSeqs(nn - 1)}

\* The gene lists of the generated complexes: between 1 and 3 genes, drawn
\* from the genes of the items and the absent genes.
ComplexGeneSets(nn) ==
    {G \in SUBSET (CommonGenes(nn) \cup AbsentGenes) :
        Cardinality(G) >= 1 /\ Cardinality(G) <= 3}

Mappings(nn) ==
    UNION {[1 .. m -> ComplexGeneSets(nn)] : m \in 1 .. MaxComplexes}

\* mappings of complexes of 2 or 3 genes that are all genes of items
PresentMappings(nn) ==
    UNION {[1 .. m -> {G \in SUBSET CommonGenes(nn) :
                          Cardinality(G) >= 2 /\ Cardinality(G) <= 3}] :
           m \in 1 .. MaxComplexes}

\* the leaves (items) below cluster id c of the linkage Z
RECURSIVE leaves(_, _, _)
leaves(Z, nn, c) ==
    IF c < nn THEN {c}
    ELSE leaves(Z, nn, Row(Z, c - nn).a) \cup leaves(Z, nn, Row(Z, c - nn).b)

\* the linkages whose dendrogram has the items in the order 0 .. nn-1: every
\* row merges two clusters of consecutive items that lie side by side
LeafOrdered(nn) ==
    {Z \in Linkages(nn) :
        \A r \in DOMAIN Z :
            LET A == leaves(Z, nn, Z[r].a)
                B == leaves(Z, nn, Z[r].b)
            IN  Max(A) + 1 = Min(B) \/ Max(B) + 1 = Min(A)}

\* the iteration orders of m complexes: the permutations of 1 .. m
Orders(m) ==
    {f \in [1 .. m -> 1 .. m] : \A i, j \in 1 .. m : f[i] = f[j] => i = j}

\* ----------------------------------------------------------------- state
\* the state on entry of get_first_level_clusters, for given inputs
Entry(nn, Z, u, cs, nm) ==
    /\ n = nn
    /\ link = Z
    /\ unit = u
    /\ complexes = cs
    /\ num = nm
    /\ pc = "complex"
    /\ ci = 1
    /\ ti = 0
    /\ clusters = <<>>
    /\ labels = {}
    /\ best_jaccard = <<0, 1>>
    /\ highest_thresh = 0
    /\ assignments = <<>>
    /\ found_at = [c \in DOMAIN cs |-> -1]
    /\ ai = 0
    /\ gene_assignments = <<>>
    /\ final_clusters = <<>>
    /\ run = 1
    /\ first = <<>>
    /\ tree = <<>>
    /\ split = <<>>

Init ==
    \E nn \in 2 .. MaxItems :
        \E Z \in LeafOrdered(nn) :
            \E cs \in Mappings(nn) : Entry(nn, Z, 8, cs, NumThresholds)

\* max_thresh = np.max(maxdists(link)), times unit
max_thresh == max_thresh_of(link, n)
\* num - 1: the factor by which thresholds are scaled
scale == num - 1
\* the current threshold of the scan (scaled)
thresh == thresh_of(ti, link, n)

\* assignments[complex] = cluster: a new key is appended, an existing key
\* keeps its position
dict_set(asg, key, cluster) ==
    IF \E i \in DOMAIN asg : asg[i].complex = key
      THEN [i \in DOMAIN asg |->
              IF asg[i].complex = key
                THEN [complex |-> key, cluster |-> cluster] ELSE asg[i]]
      ELSE Append(asg, [complex |-> key, cluster |-> cluster])

\* --------------------------------------------------------------- actions
\* mutant: best_jaccard is not reset, the previous complex's score stays
initial_best_kept(prev) == prev

\* best_jaccard = 0, whatever the previous complex left in it
initial_best(prev) == <<0, 1>>

\* mutant: only a complex with no member in common_genes is skipped
is_skipped_no_member(comp_genes, nn) == num_present(comp_genes, nn) < 1

\* if len(np.intersect1d(comp_genes, common_genes)) < 2: continue
is_skipped(comp_genes, nn) == num_present(comp_genes, nn) < 2

\* for complex, comp_genes in complexes.items(): a complex with fewer than
\* 2 members in common_genes is skipped (continue); otherwise best_jaccard = 0
\* and the scan starts at its first threshold (clusters and labels)
NextComplex ==
    /\ pc = "complex"
    /\ ci <= Len(complexes)
    /\ IF is_skipped(complexes[ci], n)
         THEN /\ ci' = ci + 1
              /\ UNCHANGED <<pc, ti, clusters, labels, best_jaccard>>
         ELSE /\ best_jaccard' = initial_best(best_jaccard)
              /\ ti' = 0
              /\ clusters' = fcluster(link, n, thresh_of(0, link, n), scale)
              /\ labels' = unique(clusters')
              /\ pc' = "label"
              /\ UNCHANGED ci
    /\ UNCHANGED <<inputs, highest_thresh, assignments, found_at, ai,
                   gene_assignments, final_clusters>>

\* the end of one iteration of `for label in labels`: the next label, else
\* the next threshold (clusters and labels anew), else the next complex
NextLabel(label) ==
    IF labels \ {label} # {}
      THEN /\ labels' = labels \ {label}
           /\ UNCHANGED <<pc, ci, ti, clusters>>
      ELSE IF ti + 1 < num
        THEN /\ ti' = ti + 1
             /\ clusters' = fcluster(link, n, thresh_of(ti + 1, link, n), scale)
             /\ labels' = unique(clusters')
             /\ UNCHANGED <<pc, ci>>
        ELSE /\ pc' = "complex"
             /\ ci' = ci + 1
             /\ UNCHANGED <<ti, clusters, labels>>

\* the label visited next: the smallest one left
label_now == Min(labels)
\* cluster = np.argwhere(clusters == label).flatten()
cluster_now == argwhere(clusters, label_now)

\* if len(cluster) < 2: continue
SmallCluster ==
    /\ pc = "label"
    /\ Cardinality(cluster_now) < 2
    /\ NextLabel(label_now)
    /\ UNCHANGED <<inputs, best_jaccard, highest_thresh, assignments,
                   found_at, ai, gene_assignments, final_clusters>>

\* the score is not a strict improvement, or is below 0.5
NoCapture ==
    /\ pc = "label"
    /\ Cardinality(cluster_now) >= 2
    /\ ~is_capture(jaccard_of(cluster_now, complexes[ci]), best_jaccard)
    /\ NextLabel(label_now)
    /\ UNCHANGED <<inputs, best_jaccard, highest_thresh, assignments,
                   found_at, ai, gene_assignments, final_clusters>>

\* mutant: highest_thresh follows the threshold of the last capture
raise_highest_always(ht, th) == th

\* mutant: highest_thresh is set by the first capture only
raise_highest_first(ht, th) == IF ht = 0 THEN th ELSE ht

\* if thresh > highest_thresh: highest_thresh = thresh
raise_highest(ht, th) == IF th > ht THEN th ELSE ht

\* if jaccard > best_jaccard and jaccard >= 0.5
Capture ==
    /\ pc = "label"
    /\ Cardinality(cluster_now) >= 2
    /\ is_capture(jaccard_of(cluster_now, complexes[ci]), best_jaccard)
    /\ highest_thresh' = raise_highest(highest_thresh, thresh)
    /\ best_jaccard' = jaccard_of(cluster_now, complexes[ci])
    /\ assignments' = dict_set(assignments, ci, cluster_now)
    /\ found_at' = [found_at EXCEPT ![ci] = thresh]
    /\ NextLabel(label_now)
    /\ UNCHANGED <<inputs, ai, gene_assignments, final_clusters>>

\* gene_assignments = np.zeros(len(common_genes))
EndComplexes ==
    /\ pc = "complex"
    /\ ci > Len(complexes)
    /\ gene_assignments' = [i \in Items(n) |-> 0]
    /\ ai' = 0
    /\ pc' = "assign"
    /\ UNCHANGED <<inputs, ci, ti, clusters, labels, best_jaccard,
                   highest_thresh, assignments, found_at, final_clusters>>

\* mutant: an item that has a label keeps it (the first complex wins)
write_label_first_wins(ga, idxs, i) ==
    [x \in DOMAIN ga |-> IF x \in idxs /\ ga[x] = 0 THEN i + 1 ELSE ga[x]]

\* gene_assignments[idxs] = i + 1, for the i-th entry of assignments
write_label(ga, idxs, i) ==
    [x \in DOMAIN ga |-> IF x \in idxs THEN i + 1 ELSE ga[x]]

WriteLabel ==
    /\ pc = "assign"
    /\ ai < Len(assignments)
    /\ gene_assignments' =
           write_label(gene_assignments, assignments[ai + 1].cluster, ai)
    /\ ai' = ai + 1
    /\ UNCHANGED <<inputs, pc, ci, ti, clusters, labels, best_jaccard,
                   highest_thresh, assignments, found_at, final_clusters>>

\* mutant: the fallback cut at highest_thresh itself
fallback_cut_no_offset(Z, nn, u, ht, s) == fcluster(Z, nn, ht, s)

\* the flat cut at highest_thresh + 0.1: a merge at distance d / u is below
\* the cut when d / u <= ht / (u * s) + 1 / OffsetDen
fallback_cut(Z, nn, u, ht, s) ==
    fcluster(Z, nn, OffsetDen * ht + u * s, OffsetDen * s)

\* mutant: the fallback labels are offset by the largest captured label only
combine_no_plus_one(ga, fb) ==
    LET top == Max({ga[x] : x \in DOMAIN ga})
    IN  [x \in DOMAIN ga |-> IF ga[x] # 0 THEN ga[x] ELSE top + fb[x]]

\* mutant: the fallback labels are not offset
combine_no_offset(ga, fb) ==
    [x \in DOMAIN ga |-> IF ga[x] # 0 THEN ga[x] ELSE fb[x]]

\* final_clusters = np.max(gene_assignments) + 1 + fcluster(...), then
\* final_clusters[np.nonzero(ga)] = ga[np.nonzero(ga)]
combine(ga, fb) ==
    LET top == Max({ga[x] : x \in DOMAIN ga})
    IN  [x \in DOMAIN ga |-> IF ga[x] # 0 THEN ga[x] ELSE top + 1 + fb[x]]

Fallback ==
    /\ pc = "assign"
    /\ ai = Len(assignments)
    /\ final_clusters' =
           combine(gene_assignments,
                   fallback_cut(link, n, unit, highest_thresh, scale))
    /\ pc' = "done"
    /\ UNCHANGED <<inputs, ci, ti, clusters, labels, best_jaccard,
                   highest_thresh, assignments, found_at, ai,
                   gene_assignments>>

Next ==
    \/ NextComplex
    \/ SmallCluster
    \/ NoCapture
    \/ Capture
    \/ EndComplexes
    \/ WriteLabel
    \/ Fallback

Spec == Init /\ [][Next]_vars

\* ------------------------------------------- the function called twice
\* A second call on the same linkage and items with the same complexes in
\* another iteration order (the identity included); `first` keeps what the
\* first call returned and which items it gave a captured label.
Rerun ==
    /\ pc = "done"
    /\ run = 1
    /\ \E f \in Orders(Len(complexes)) :
          complexes' = [i \in DOMAIN complexes |-> complexes[f[i]]]
    /\ first' = [final_clusters |-> final_clusters,
                 captured |-> {x \in Items(n) : gene_assignments[x] # 0},
                 complexes |-> complexes]
    /\ run' = 2
    /\ pc' = "complex"
    /\ ci' = 1
    /\ ti' = 0
    /\ clusters' = <<>>
    /\ labels' = {}
    /\ best_jaccard' = <<0, 1>>
    /\ highest_thresh' = 0
    /\ assignments' = <<>>
    /\ found_at' = [c \in DOMAIN complexes |-> -1]
    /\ ai' = 0
    /\ gene_assignments' = <<>>
    /\ final_clusters' = <<>>
    /\ UNCHANGED <<n, link, unit, num, tree, split>>

\* the linkages in leaf order over nn = 2p items whose first p rows merge
\* the pairs of items (0, 1), (2, 3), ... in this order
PairedLinkages(nn) ==
    {Z \in LeafOrdered(nn) :
        \A r \in 1 .. (nn \div 2) : Z[r].a = 2 * r - 2 /\ Z[r].b = 2 * r - 1}

\* the genes of the k-th pair of items (k = 0, 1, ...)
pair_genes(k) == {common_genes(2 * k), common_genes(2 * k + 1)}

\* 2 .. MaxPairs pairs of items; the first complex is the first pair, the
\* second is the first pair with the absent genes, another pair with or
\* without the absent genes, or the two items in the middle of the first
\* two pairs (Rerun gives the other order)
InitOrders ==
    \E p \in 2 .. MaxPairs :
        \E Z \in PairedLinkages(2 * p) :
            \E c2 \in {pair_genes(0) \cup AbsentGenes,
                        {common_genes(1), common_genes(2)}}
                       \cup {pair_genes(k) : k \in 1 .. (p - 1)}
                       \cup {pair_genes(k) \cup AbsentGenes : k \in 1 .. (p - 1)} :
                Entry(2 * p, Z, 8, <<pair_genes(0), c2>>, NumThresholds)

NextOrders == Next \/ Rerun

SpecOrders == InitOrders /\ [][NextOrders]_vars

\* ------------------------------- the function called without a complex
\* A second call on the same linkage and items with one complex that has
\* fewer than 2 genes in common_genes removed from the mapping.
RerunWithout ==
    /\ pc = "done"
    /\ run = 1
    /\ \E c \in DOMAIN complexes :
          /\ num_present(complexes[c], n) < 2
          /\ complexes' = [i \in 1 .. (Len(complexes) - 1) |->
                             IF i < c THEN complexes[i] ELSE complexes[i + 1]]
    /\ first' = [final_clusters |-> final_clusters,
                 highest_thresh |-> highest_thresh,
                 complexes |-> complexes]
    /\ run' = 2
    /\ pc' = "complex"
    /\ ci' = 1
    /\ ti' = 0
    /\ clusters' = <<>>
    /\ labels' = {}
    /\ best_jaccard' = <<0, 1>>
    /\ highest_thresh' = 0
    /\ assignments' = <<>>
    /\ found_at' = [c \in 1 .. (Len(complexes) - 1) |-> -1]
    /\ ai' = 0
    /\ gene_assignments' = <<>>
    /\ final_clusters' = <<>>
    /\ UNCHANGED <<n, link, unit, num, tree, split>>

\* the mappings with a complex that has fewer than 2 genes in common_genes
InitRemoved ==
    \E nn \in 2 .. MaxItems :
        \E Z \in LeafOrdered(nn) :
            \E cs \in {m \in Mappings(nn) :
                          \E c \in DOMAIN m : num_present(m[c], nn) < 2} :
                Entry(nn, Z, 8, cs, NumThresholds)

NextRemoved == Next \/ RerunWithout

SpecRemoved == InitRemoved /\ [][NextRemoved]_vars

\* ------------------------------------- complexes with many absent genes
\* mappings of complexes with 2 or 3 genes in common_genes and
\* 2 .. MaxAbsent genes that are not (identifiers 1, 2, ...): half of the
\* genes of a complex or fewer are present
InitAbsent ==
    \E nn \in 2 .. MaxItems :
        \E Z \in LeafOrdered(nn) :
            \E cs \in PresentMappings(nn) :
                \E a \in 2 .. MaxAbsent :
                    Entry(nn, Z, 8, [c \in DOMAIN cs |-> cs[c] \cup (1 .. a)],
                          NumThresholds)

SpecAbsent == InitAbsent /\ [][Next]_vars

\* ------------------------------------------------ create_data_structure
\* the state of get_first_level_clusters while another routine is modelled
Idle ==
    /\ n = 0
    /\ link = <<>>
    /\ unit = 1
    /\ complexes = <<>>
    /\ num = 0
    /\ pc = "idle"
    /\ ci = 0
    /\ ti = 0
    /\ clusters = <<>>
    /\ labels = {}
    /\ best_jaccard = <<0, 1>>
    /\ highest_thresh = 0
    /\ assignments = <<>>
    /\ found_at = <<>>
    /\ ai = 0
    /\ gene_assignments = <<>>
    /\ final_clusters = <<>>
    /\ run = 1
    /\ first = <<>>

\* the elements of a set of integers in ascending order (np.unique and
\* np.argwhere return sorted arrays)
RECURSIVE sorted_seq(_)
sorted_seq(S) ==
    IF S = {} THEN <<>> ELSE <<Min(S)>> \o sorted_seq(S \ {Min(S)})

\* orf2name_mapper: the display names of the genes that have one (here the
\* genes with an even identifier, named 100 + identifier)
orf2name_mapper == [g \in {10, 12, 14} |-> 100 + g]

\* mapped_genes[i]: the display name of item i, its identifier when the
\* mapper has no entry
mapped_genes(i) ==
    IF common_genes(i) \in DOMAIN orf2name_mapper
      THEN orf2name_mapper[common_genes(i)]
      ELSE common_genes(i)

\* clusters[::-1]
reversed(s) == [i \in 1 .. Len(s) |-> s[Len(s) + 1 - i]]

\* create_data_structure_recursive(clusters, subset, idx): subset is an
\* array of item indices, idx is 0-based; the value returned is a list of
\* leaves (type "list") or a node (type "dict").  children_loop is the loop
\* `for label in labels` from the k-th label on.
RECURSIVE create_data_structure_recursive(_, _, _)
RECURSIVE children_loop(_, _, _, _)
create_data_structure_recursive(cl, subset, idx) ==
    IF idx + 1 > Len(cl)
      THEN [type |-> "list",
            val |-> [k \in DOMAIN subset |->
                       [name |-> mapped_genes(subset[k]), value |-> 1]]]
      ELSE LET cluster == cl[idx + 1]
               cluster_ == [k \in DOMAIN subset |-> cluster[subset[k]]]
               labs == sorted_seq(unique(cluster_))
           IN  [type |-> "dict",
                val |-> [name |-> "",
                         children |-> children_loop(cl, idx, labs, 1)]]

children_loop(cl, idx, labs, k) ==
    IF k > Len(labs)
      THEN <<>>
      ELSE LET new_subset == sorted_seq(argwhere(cl[idx + 1], labs[k]))
               child == create_data_structure_recursive(cl, new_subset, idx + 1)
           IN  (IF child.type = "list" THEN child.val ELSE <<child.val>>)
                 \o children_loop(cl, idx, labs, k + 1)

\* create_data_structure(clusters)
create_data_structure(cl) ==
    LET rev == reversed(cl)
    IN  create_data_structure_recursive(
            rev, [k \in 1 .. Cardinality(DOMAIN rev[1]) |-> k - 1], 0).val

\* every list of 1 .. MaxLevels levels over 1 .. MaxTreeItems items, each
\* level an array of cluster ids in 1 .. N, in the order given to
\* create_data_structure (the finest level first)
InitTree ==
    /\ Idle
    /\ split = <<>>
    /\ \E N \in 1 .. MaxTreeItems :
          \E L \in 1 .. MaxLevels :
              \E cl \in [1 .. L -> [Items(N) -> 1 .. N]] :
                  tree = [pc |-> "start", clusters |-> cl, data |-> <<>>]

\* data = create_data_structure(clusters)
CreateDataStructure ==
    /\ tree # <<>>
    /\ tree.pc = "start"
    /\ tree' = [tree EXCEPT !.pc = "built",
                             !.data = create_data_structure(tree.clusters)]
    /\ UNCHANGED <<n, link, unit, complexes, num, pc, ci, ti, clusters, labels,
                   best_jaccard, highest_thresh, assignments, found_at, ai,
                   gene_assignments, final_clusters, run, first, split>>

SpecTree == InitTree /\ [][CreateDataStructure]_vars

\* ------------------------------------------- the train/test splitting loop
\* math.floor((1 - test_size) * len(shuffled_genes)), mutant: the share of
\* the test genes
train_size_of_test(len) == (test_size[1] * len) \div test_size[2]

\* math.floor((1 - test_size) * len(shuffled_genes))
train_size(len) == ((test_size[2] - test_size[1]) * len) \div test_size[2]

\* supervised: a dict from gene to its complexes; the genes are 1 .. k, in
\* complex 1 and, every second gene, in complex 2 as well
Standards ==
    {[g \in 1 .. k |-> IF (g + o) % 2 = 0 THEN {1} ELSE {1, 2}] :
        k \in 0 .. MaxGenes, o \in 0 .. 1}

\* genes = list(set(supervised.keys())), before the first trial
InitSplitting ==
    /\ Idle
    /\ tree = <<>>
    /\ \E supervised \in Standards :
          split = [pc |-> "shuffle",
                   trial |-> 0,
                   supervised |-> supervised,
                   genes |-> DOMAIN supervised,
                   shuffled_genes |-> <<>>,
                   train_genes |-> <<>>,
                   test_genes |-> {},
                   test_standard |-> <<>>,
                   train_standard |-> <<>>]

\* for trial in range(n_trials): np.random.shuffle(shuffled_genes), then
\* train_genes = shuffled_genes[:train_size] and
\* test_genes = set(shuffled_genes[train_size:])
Shuffle ==
    /\ split # <<>>
    /\ split.pc = "shuffle"
    /\ split.trial < n_trials
    /\ \E order \in Orders(Cardinality(split.genes)) :
          LET shuffled == [i \in DOMAIN order |-> sorted_seq(split.genes)[order[i]]]
              size == train_size(Len(shuffled))
          IN  split' = [split EXCEPT
                          !.pc = "split",
                          !.shuffled_genes = shuffled,
                          !.train_genes = SubSeq(shuffled, 1, size),
                          !.test_genes = {shuffled[i] : i \in (size + 1) .. Len(shuffled)}]
    /\ UNCHANGED <<n, link, unit, complexes, num, pc, ci, ti, clusters, labels,
                   best_jaccard, highest_thresh, assignments, found_at, ai,
                   gene_assignments, final_clusters, run, first, tree>>

\* {gene: complexes for gene, complexes in standard.items() if cond(gene)}
dict_filter(standard, keep) == [g \in {k \in DOMAIN standard : keep[k]} |-> standard[g]]

\* split_supervised(supervised, test_genes, trial, name); split_coannotation
\* and split_module are called before it with save = False and leave the
\* variables of the loop alone
SplitSupervised ==
    /\ split # <<>>
    /\ split.pc = "split"
    /\ split' = [split EXCEPT
                    !.pc = "shuffle",
                    !.trial = split.trial + 1,
                    !.test_standard =
                        dict_filter(split.supervised,
                            [g \in DOMAIN split.supervised |-> g \in split.test_genes]),
                    !.train_standard =
                        dict_filter(split.supervised,
                            [g \in DOMAIN split.supervised |-> g \notin split.test_genes])]
    /\ UNCHANGED <<n, link, unit, complexes, num, pc, ci, ti, clusters, labels,
                   best_jaccard, highest_thresh, assignments, found_at, ai,
                   gene_assignments, final_clusters, run, first, tree>>

NextSplitting == Shuffle \/ SplitSupervised

SpecSplitting == InitSplitting /\ [][NextSplitting]_vars

\* ------------------------------------------------ the 5-item scenario
\* merges at 0.1, 0.2, 0.5, 0.9; item 0 and item 1 merge at 0.1; the one
\* complex {item 0, item 1}; the scan of the code (1000 thresholds)
ScenarioDists == <<1, 2, 5, 9>>

ScenarioLinkages ==
    {MakeLinkage(sh, ScenarioDists) :
        sh \in {x \in Shapes(5, <<>>, Items(5)) : x[1] = <<0, 1>>}}

InitScenario ==
    \E Z \in ScenarioLinkages :
        Entry(5, Z, 10, <<{common_genes(0), common_genes(1)}>>,
              NumThresholds)

SpecScenario == InitScenario /\ [][Next]_vars

\* ------------------------------- a two-gene complex split by the root
\* the two genes lie in the two branches that only the last merge joins
InitSplit ==
    \E nn \in 2 .. (MaxItems + 2) :
        \E Z \in LeafOrdered(nn) :
            \E i \in leaves(Z, nn, Row(Z, nn - 2).a) :
                \E j \in leaves(Z, nn, Row(Z, nn - 2).b) :
                    Entry(nn, Z, 8, <<{common_genes(i), common_genes(j)}>>,
                          NumThresholds)

SpecSplit == InitSplit /\ [][Next]_vars

\* ------------------------------------------- two pairs of items
\* MaxItems + 1 items and a complex of two of their genes, alone, with the
\* absent genes, or with the absent genes and followed by the complex of
\* the genes of the other items
InitPairs ==
    LET nn == MaxItems + 1
    IN  \E Z \in LeafOrdered(nn) :
            \E P \in {G \in SUBSET CommonGenes(nn) : Cardinality(G) = 2} :
                \E cs \in {<<P>>, <<P \cup AbsentGenes>>,
                            <<P \cup AbsentGenes, CommonGenes(nn) \ P>>} :
                    Entry(nn, Z, 8, cs, NumThresholds)

SpecPairs == InitPairs /\ [][Next]_vars


\* ================================================================ claims
Done == pc = "done"

\* the clusters with at least 2 members of the k-th scanned threshold
scanned_clusters(k) ==
    LET T == fcluster(link, n, thresh_of(k, link, n), scale)
    IN  {cl \in {argwhere(T, lab) : lab \in unique(T)} : Cardinality(cl) >= 2}

\* some cluster of size >= 2 at some scanned threshold has Jaccard >= 0.5
reaches_gate(comp_genes) ==
    \E k \in 0 .. (num - 1) :
        \E cl \in scanned_clusters(k) :
            2 * Cardinality(cluster_genes_of(cl) \cap comp_genes)
                >= Cardinality(cluster_genes_of(cl) \cup comp_genes)

\* the positions (labels) of complex c in assignments
labels_of(c) == {p \in DOMAIN assignments : assignments[p].complex = c}

\* the items that a captured complex recorded and no later entry overwrote
surviving(p) ==
    {x \in assignments[p].cluster :
        \A q \in DOMAIN assignments : q > p => x \notin assignments[q].cluster}

\* the items given some captured label
captured_items == {x \in Items(n) : gene_assignments[x] # 0}

\* C1 as stated: every complex with >= 2 genes present that reaches Jaccard
\* >= 0.5 at some scanned threshold has its own label, carried by at least
\* one item of the returned array.
C1_AsStated ==
    Done =>
      \A c \in DOMAIN complexes :
        (num_present(complexes[c], n) >= 2 /\ reaches_gate(complexes[c])) =>
          /\ Cardinality(labels_of(c)) = 1
          /\ \E p \in labels_of(c) :
                \E x \in Items(n) : final_clusters[x] = p

\* C1 (amended): every complex with >= 2 genes present that reaches Jaccard
\* >= 0.5 at some scanned threshold is entered in assignments exactly once,
\* so it has one positive label p of its own, and the items that carry p in
\* the returned array are exactly the items of its recorded cluster that
\* lie in no recorded cluster of a complex captured later (possibly none).
C1_Captured ==
    Done =>
      \A c \in DOMAIN complexes :
        (num_present(complexes[c], n) >= 2 /\ reaches_gate(complexes[c])) =>
          /\ Cardinality(labels_of(c)) = 1
          /\ \A p \in labels_of(c) :
                /\ p >= 1
                /\ {x \in Items(n) : final_clusters[x] = p} = surviving(p)

\* two complexes are captured and each label is carried by some item
C1_Witness ==
    /\ Done
    /\ Len(assignments) = 2
    /\ \A p \in 1 .. 2 : \E x \in Items(n) : final_clusters[x] = p
    /\ reaches_gate(complexes[1])

\* C2 as stated: no gene of a complex that never reaches Jaccard >= 0.5
\* receives a captured-complex label, whatever the other complexes are.
C2_AsStated ==
    Done =>
      \A c \in DOMAIN complexes :
        ~reaches_gate(complexes[c]) =>
          \A x \in Items(n) :
            common_genes(x) \in complexes[c] => x \notin captured_items

\* C2 (amended): a complex that never reaches Jaccard >= 0.5 is never
\* entered in assignments, so no label stands for it; each of its genes in
\* the item set carries a fallback label unless the item lies in the
\* recorded cluster of another, captured complex.
C2_NotCaptured ==
    Done =>
      \A c \in DOMAIN complexes :
        ~reaches_gate(complexes[c]) =>
          /\ labels_of(c) = {}
          /\ \A x \in Items(n) :
               common_genes(x) \in complexes[c] =>
                 \/ /\ x \notin captured_items
                    /\ final_clusters[x] > Len(assignments)
                 \/ \E p \in DOMAIN assignments :
                       /\ assignments[p].complex # c
                       /\ x \in assignments[p].cluster
                       /\ final_clusters[x] <= Len(assignments)

\* a complex with 2 genes present fails the gate and its items are fallback
C2_Witness ==
    /\ Done
    /\ Len(assignments) = 1
    /\ \E c \in DOMAIN complexes :
          /\ num_present(complexes[c], n) >= 2
          /\ ~reaches_gate(complexes[c])
          /\ \A x \in Items(n) :
               common_genes(x) \in complexes[c] => x \notin captured_items

\* C3: in the returned array no item keeps 0; a label is either the label i
\* of a captured complex whose recorded cluster contains the item, or
\* k + 1 + f with k the largest captured label and f the item's cluster id
\* in the cut at highest_thresh + 0.1; a captured label is kept.
C3_Labelled ==
    Done =>
      LET k == IF captured_items = {} THEN 0
               ELSE Max({gene_assignments[x] : x \in captured_items})
          f == fcluster(link, n, OffsetDen * highest_thresh + unit * scale,
                        OffsetDen * scale)
      IN  \A x \in Items(n) :
            /\ final_clusters[x] # 0
            /\ IF gene_assignments[x] # 0
                 THEN /\ final_clusters[x] = gene_assignments[x]
                      /\ final_clusters[x] \in 1 .. k
                      /\ x \in assignments[final_clusters[x]].cluster
                 ELSE final_clusters[x] = k + 1 + f[x]

\* the returned array holds a captured and a fallback label
C3_Witness ==
    /\ Done
    /\ captured_items # {}
    /\ captured_items # Items(n)

\* C4: the labels of fallback items are strictly greater than every
\* captured-complex label (every label 1 .. len(assignments), also one that
\* was fully overwritten), so no fallback group shares a label with a
\* captured group.
C4_NoCollision ==
    Done =>
      \A x \in Items(n) :
        gene_assignments[x] = 0 =>
          /\ \A p \in DOMAIN assignments : final_clusters[x] > p
          /\ \A y \in captured_items : final_clusters[x] # final_clusters[y]

\* fallback items exist while a captured label was fully overwritten
C4_Witness ==
    /\ Done
    /\ captured_items # Items(n)
    /\ \E p \in DOMAIN assignments : surviving(p) = {}

\* C5: highest_thresh starts at 0, never decreases from one step to the
\* next, and never exceeds max_thresh.
C5_Monotone ==
    /\ highest_thresh = 0
    /\ [][highest_thresh' >= highest_thresh]_vars
    /\ [](highest_thresh <= max_thresh * scale)

\* a later complex records a cluster found below highest_thresh
C5_Witness ==
    /\ pc = "label"
    /\ found_at[ci] >= 0
    /\ found_at[ci] < highest_thresh

\* the score of cluster cl for complex c is at most / equal to that of rec
score_le(cl, rec, g) ==
    jaccard_of(cl, g)[1] * jaccard_of(rec, g)[2]
        <= jaccard_of(rec, g)[1] * jaccard_of(cl, g)[2]
score_eq(cl, rec, g) == score_le(cl, rec, g) /\ score_le(rec, cl, g)

\* C6: the 5-item scenario.  The complex is captured with Jaccard 1.0 at the
\* smallest scanned threshold >= 0.1 (less than one scan step above 0.1),
\* highest_thresh ends at that threshold, items 0 and 1 share a label that
\* no other item has, and the other 3 items get the fallback labels of the
\* cut at 0.2.
C6_Scenario ==
    Done =>
      /\ Len(assignments) = 1
      /\ assignments[1].cluster = {0, 1}
      /\ best_jaccard[1] = best_jaccard[2]
      /\ found_at[1] =
           Min({thresh_of(k, link, n) : k \in
                  {j \in 0 .. (num - 1) :
                     thresh_of(j, link, n) >= ScenarioDists[1] * scale}})
      /\ highest_thresh = found_at[1]
      /\ highest_thresh - ScenarioDists[1] * scale < max_thresh
      /\ final_clusters[0] = final_clusters[1]
      /\ \A x \in Items(n) \ {0, 1} :
            /\ final_clusters[x] # final_clusters[0]
            /\ final_clusters[x] =
                 1 + 1 + fcluster(link, n, ScenarioDists[2] * scale, scale)[x]

\* the run is over and two of the other items, merged at 0.2, share a label
C6_Witness ==
    /\ Done
    /\ final_clusters[0] = 1
    /\ \E x, y \in Items(n) \ {0, 1} :
          x # y /\ final_clusters[x] = final_clusters[y]

\* C7 as stated: a two-gene complex whose items only the final merge joins
\* is not captured, for every number of items N >= 2.
C7_AsStated ==
    Done =>
      /\ assignments = <<>>
      /\ ~reaches_gate(complexes[1])
      /\ captured_items = {}

\* C7 (amended): such a complex is not captured when N >= 5: no cluster at
\* any scanned threshold scores >= 0.5 and no item receives its label.  For
\* 2 <= N <= 4 the cluster of all N items at the last scanned threshold,
\* max_thresh, scores 2 / N >= 0.5 and the complex is captured with it.
C7_Split ==
    Done =>
      IF n >= 5
        THEN /\ assignments = <<>>
             /\ ~reaches_gate(complexes[1])
             /\ captured_items = {}
        ELSE /\ Len(assignments) = 1
             /\ assignments[1].cluster = Items(n)
             /\ found_at[1] = max_thresh * scale
             /\ captured_items = Items(n)

\* a run over 5 items ends with the complex not captured
C7_Witness ==
    /\ Done
    /\ n = 5
    /\ assignments = <<>>
    /\ num_present(complexes[1], n) = 2

\* C8: for every captured complex the recorded cluster attains the largest
\* score over all clusters of all scanned thresholds, and it was found at
\* the smallest scanned threshold at which some cluster attains that score.
C8_FirstBest ==
    Done =>
      \A p \in DOMAIN assignments :
        LET c == assignments[p].complex
            g == complexes[c]
            rec == assignments[p].cluster
            ks == {k \in 0 .. (num - 1) :
                     \E cl \in scanned_clusters(k) : score_eq(cl, rec, g)}
        IN  /\ \A k \in 0 .. (num - 1) :
                  \A cl \in scanned_clusters(k) : score_le(cl, rec, g)
            /\ ks # {}
            /\ found_at[c] = thresh_of(Min(ks), link, n)
            /\ rec \in scanned_clusters(Min(ks))

\* a captured complex whose best score occurs again at a higher threshold
C8_Witness ==
    /\ Done
    /\ \E p \in DOMAIN assignments :
          \E k \in 0 .. (num - 1) :
             /\ thresh_of(k, link, n) > found_at[assignments[p].complex]
             /\ \E cl \in scanned_clusters(k) :
                   score_eq(cl, assignments[p].cluster,
                            complexes[assignments[p].complex])

\* the two arrays group the items of X in the same way
same_grouping(A, B, X) ==
    \A x, y \in X : (A[x] = A[y]) <=> (B[x] = B[y])

\* C9 as stated: for two iteration orders of the same mapping the outputs
\* differ only by a renumbering of labels: same captured items, same groups.
C9_AsStated ==
    (Done /\ run = 2) =>
      /\ captured_items = first.captured
      /\ same_grouping(final_clusters, first.final_clusters, Items(n))

\* C9 (amended): for two iteration orders of the same mapping the set of
\* items that carry a captured-complex label is the same and the fallback
\* items are grouped in the same way; the captured items are grouped in the
\* same way too when no item lies in the recorded clusters of two captured
\* complexes (otherwise the last processed one wins and the groups differ).
C9_Orders ==
    (Done /\ run = 2) =>
      /\ captured_items = first.captured
      /\ same_grouping(final_clusters, first.final_clusters,
                       Items(n) \ captured_items)
      /\ (\A p, q \in DOMAIN assignments :
             p # q => assignments[p].cluster \cap assignments[q].cluster = {})
           => same_grouping(final_clusters, first.final_clusters, Items(n))

\* the second call, in the other order, recorded two disjoint clusters and
\* left two fallback items, which share a label
C9_Witness ==
    /\ Done
    /\ run = 2
    /\ first.complexes # complexes
    /\ Len(assignments) = 2
    /\ assignments[1].cluster \cap assignments[2].cluster = {}
    /\ \E x, y \in Items(n) \ captured_items :
          x # y /\ final_clusters[x] = final_clusters[y]

\* C10: an item in the recorded clusters of two or more captured complexes
\* carries the label of the one processed last in the iteration order.
C10_LastWins ==
    Done =>
      \A x \in Items(n) :
        LET ps == {p \in DOMAIN assignments : x \in assignments[p].cluster}
        IN  Cardinality(ps) >= 2 =>
              \E p \in ps :
                 /\ final_clusters[x] = p
                 /\ \A q \in ps :
                       assignments[q].complex <= assignments[p].complex

\* an item lies in two different recorded clusters
C10_Witness ==
    /\ Done
    /\ \E x \in Items(n) :
          \E p, q \in DOMAIN assignments :
             /\ p # q
             /\ x \in assignments[p].cluster \cap assignments[q].cluster
             /\ assignments[p].cluster # assignments[q].cluster

\* C11: a complex with fewer than 2 of its genes in the item set is never
\* entered in assignments, highest_thresh and assignments do not change
\* while it is the complex of the loop, and the array returned for the
\* mapping without it (same highest_thresh) is the same.
C11_Ignored ==
    /\ [](\A p \in DOMAIN assignments :
             num_present(complexes[assignments[p].complex], n) >= 2)
    /\ [][(/\ pc \in {"complex", "label"}
           /\ ci <= Len(complexes)
           /\ num_present(complexes[ci], n) < 2)
          => (highest_thresh' = highest_thresh /\ assignments' = assignments)]_vars
    /\ []((Done /\ run = 2) =>
             /\ final_clusters = first.final_clusters
             /\ highest_thresh = first.highest_thresh)

\* the second call is over; the removed complex, of a single gene, scores
\* 0.5 against a cluster of 2 items, and another complex is captured
C11_Witness ==
    /\ Done
    /\ run = 2
    /\ Len(assignments) = 1
    /\ \E c \in DOMAIN first.complexes :
          /\ num_present(first.complexes[c], n) < 2
          /\ reaches_gate(first.complexes[c])
          /\ Len(complexes) = Len(first.complexes) - 1
\* the leaves below a node of the tree, in order
RECURSIVE leaves_below(_)
leaves_below(node) ==
    IF "children" \in DOMAIN node
      THEN LET RECURSIVE cat(_)
               cat(k) == IF k > Len(node.children) THEN <<>>
                         ELSE leaves_below(node.children[k]) \o cat(k + 1)
           IN  cat(1)
      ELSE <<node>>

\* the leaves below the node are the items of E, each once, with its
\* display name and value 1
leaves_are(node, E) ==
    LET lv == leaves_below(node)
    IN  /\ Len(lv) = Cardinality(E)
        /\ {lv[k].name : k \in DOMAIN lv} = {mapped_genes(i) : i \in E}
        /\ \A k \in DOMAIN lv : lv[k].value = 1

\* the node at depth d (the root has depth 0) that stands for the items E
\* has the items of E as its leaves and, above the finest level, one child
\* per label of level d among E, which stands for the items of E with
\* that label
RECURSIVE groups_ok(_, _, _, _)
groups_ok(node, d, E, cl) ==
    /\ leaves_are(node, E)
    /\ d < Len(cl) - 1 =>
          LET labs == sorted_seq({cl[d + 1][i] : i \in E})
          IN  /\ Len(node.children) = Len(labs)
              /\ \A k \in DOMAIN labs :
                    groups_ok(node.children[k], d + 1,
                              {i \in E : cl[d + 1][i] = labs[k]}, cl)

\* every level (coarsest first) refines the level before it
nested(cl) ==
    \A l \in 2 .. Len(cl) :
        \A x, y \in DOMAIN cl[l] :
            cl[l][x] = cl[l][y] => cl[l - 1][x] = cl[l - 1][y]

\* C12 as stated: for any list of levels the leaves below a node of the
\* tree are exactly the items that carry the node's label and the labels of
\* its ancestors, so each of the N items is exactly one leaf, with the
\* item's display name and value 1.
C12_AsStated ==
    (tree # <<>> /\ tree.pc = "built") =>
        groups_ok(tree.data, 0, DOMAIN tree.clusters[1], reversed(tree.clusters))

\* the same for the lists in which each level refines the next coarser one
C12_Nested ==
    (tree # <<>> /\ tree.pc = "built" /\ nested(reversed(tree.clusters))) =>
        groups_ok(tree.data, 0, DOMAIN tree.clusters[1], reversed(tree.clusters))

\* a tree of 3 items built from 3 nested levels, the middle one with a
\* cluster of 2 items
C12_NestedWitness ==
    /\ tree # <<>>
    /\ tree.pc = "built"
    /\ Len(tree.clusters) = 3
    /\ nested(reversed(tree.clusters))
    /\ Cardinality(DOMAIN tree.clusters[1]) = 3
    /\ Cardinality(unique(tree.clusters[1])) = 3
    /\ Cardinality(unique(tree.clusters[2])) = 2
    /\ Cardinality(unique(tree.clusters[3])) = 1
\* the genes have been shuffled and split in the current trial
shuffled_now == split # <<>> /\ (split.pc = "split" \/ split.trial > 0)

\* split_supervised has run in some trial
split_done == split # <<>> /\ split.trial > 0

\* C13: in every trial train_genes and test_genes are disjoint and hold
\* every gene exactly once between them, with floor(0.8 * n) train genes
\* and n - floor(0.8 * n) test genes; split_supervised puts a gene's
\* entry in the test standard iff the gene is in test_genes, and in the
\* train standard otherwise.
C13_TrainTest ==
    /\ shuffled_now =>
          LET train == {split.train_genes[i] : i \in DOMAIN split.train_genes}
              cnt == Cardinality(split.genes)
          IN  /\ train \cap split.test_genes = {}
              /\ train \cup split.test_genes = split.genes
              /\ Cardinality(train) = Len(split.train_genes)
              /\ Len(split.train_genes) = (4 * cnt) \div 5
              /\ Cardinality(split.test_genes) = cnt - (4 * cnt) \div 5
    /\ (split_done /\ split.pc = "shuffle") =>
          \A g \in DOMAIN split.supervised :
              /\ g \in DOMAIN split.test_standard <=> g \in split.test_genes
              /\ g \in DOMAIN split.train_standard <=> g \notin split.test_genes
              /\ g \in split.test_genes =>
                    split.test_standard[g] = split.supervised[g]
              /\ g \notin split.test_genes =>
                    split.train_standard[g] = split.supervised[g]

\* the last trial is over: 4 genes were split into 3 train genes and 1
\* test gene, whose entry is the test standard
C13_Witness ==
    /\ split # <<>>
    /\ split.pc = "shuffle"
    /\ split.trial = n_trials
    /\ Cardinality(split.genes) = 4
    /\ Len(split.train_genes) = 3
    /\ Cardinality(DOMAIN split.test_standard) = 1
    /\ Cardinality(DOMAIN split.train_standard) = 3
\* the scan is over
scan_over == pc \in {"assign", "done"}

\* the threshold (scaled) at which the recorded cluster of entry p was found
recorded_at(p) == found_at[assignments[p].complex]

\* C14: when the scan is over, highest_thresh is the maximum over the
\* captured complexes of the threshold at which the finally recorded
\* cluster was found, 0 when no complex is captured; the fallback cut
\* highest_thresh + 0.1 is above the threshold of every recorded cluster.
C14_Highest ==
    scan_over =>
        /\ highest_thresh = Max({0} \cup {recorded_at(p) : p \in DOMAIN assignments})
        /\ \A p \in DOMAIN assignments :
              /\ recorded_at(p) >= 0
              /\ OffsetDen * highest_thresh + unit * scale
                    > OffsetDen * recorded_at(p)

\* two complexes are captured, the first at a higher threshold than the
\* second
C14_Witness ==
    /\ Done
    /\ Len(assignments) = 2
    /\ recorded_at(1) > recorded_at(2)
    /\ recorded_at(2) > 0

\* C15: the score is taken against the full gene list of the complex, so a
\* complex with fewer than half of its genes in the item set is never
\* captured, whatever the linkage.
C15_NeverCaptured ==
    \A c \in DOMAIN complexes :
        2 * num_present(complexes[c], n) < Cardinality(complexes[c]) =>
            /\ found_at[c] = -1
            /\ labels_of(c) = {}

\* the call is over for a complex with 2 of its 5 genes in the item set,
\* and a scanned cluster holds exactly these 2 genes
C15_Witness ==
    /\ Done
    /\ \E c \in DOMAIN complexes :
          /\ Cardinality(complexes[c]) = 5
          /\ num_present(complexes[c], n) = 2
          /\ \E k \in 0 .. (num - 1) :
                \E cl \in scanned_clusters(k) :
                    cluster_genes_of(cl) = complexes[c] \cap CommonGenes(n)

\* the flat cut of the linkage at highest_thresh + 0.1
cut_above == fallback_cut(link, n, unit, highest_thresh, scale)

\* C16: two items with the same returned label, captured or fallback, are
\* in the same cluster of the flat cut at highest_thresh + 0.1.
C16_Refines ==
    Done =>
        LET cut == cut_above
        IN  \A x, y \in Items(n) :
                final_clusters[x] = final_clusters[y] => cut[x] = cut[y]

\* a captured label and a fallback label are each carried by 2 items, and
\* the cut has more than one cluster
C16_Witness ==
    /\ Done
    /\ \E x, y \in Items(n) :
          /\ x # y
          /\ final_clusters[x] = final_clusters[y]
          /\ gene_assignments[x] # 0
    /\ \E x, y \in Items(n) :
          /\ x # y
          /\ final_clusters[x] = final_clusters[y]
          /\ gene_assignments[x] = 0
    /\ Cardinality(unique(cut_above)) > 1
====
